---- MODULE Spec2Model ----
(***************************************************************************)
(* Routing and resilience layer of ts-llmcore: ProviderRouter              *)
(* (src/src/core/index.ts), the ConfigurationManager answers it consumes,  *)
(* and the LLMCore facade (src/src/core/llmcore.ts).                       *)
(*                                                                         *)
(* Every async method is cut at its awaits: the code between two awaits    *)
(* runs to completion on the single JavaScript thread and is one action.   *)
(* Provider calls (chat, chatStream, getHealth) are external: their        *)
(* outcome is an input of the action that resumes the caller.              *)
(* averageLatency is not modelled: it is a float derived from wall-clock   *)
(* measurements and no other field depends on it.                          *)
(***************************************************************************)
EXTENDS Integers, Sequences, FiniteSets, TLC

(***************************************************************************)
(* Bounds of the exploration.                                              *)
(***************************************************************************)
MaxInFlight == 2      \* request tasks that can be in flight together
MaxRequests == 3      \* chat/chatStream calls issued in one behaviour
MaxTime     == 2      \* clock ticks
MaxInits    == 1      \* initialize() calls in one behaviour
MaxBreakerRequests == 6   \* calls issued in one behaviour of SpecBreaker

(***************************************************************************)
(* Program constants.                                                      *)
(***************************************************************************)
DefaultFailureThreshold == 5       \* circuitBreaker?.failureThreshold || 5
DefaultResetTimeout     == 60000   \* circuitBreaker?.resetTimeout || 60000
DefaultMaxAttempts      == 3       \* globalSettings?.retries || 3
BackoffMultiplier       == 2       \* backoffMultiplier: 2
DefaultMaxDelay         == 30000   \* maxDelay when retryDelay is unset
MaxDelayFactor          == 10      \* globalSettings.retryDelay * 10

None == "none"

\* ProviderName values used by the model; "groq" is a legal name that the
\* explored configurations never configure, so it is never registered.
Names  == {"openai", "claude", "groq"}

Tasks == 1..MaxInFlight

Min(a, b) == IF a <= b THEN a ELSE b

RECURSIVE Pow(_, _)
Pow(b, e) == IF e = 0 THEN 1 ELSE b * Pow(b, e - 1)

Range(s) == {s[i] : i \in 1..Len(s)}

(***************************************************************************)
(* Errors.  shape "typed" is an object with a type field (LLMCoreError),   *)
(* "raw" an Error instance without type, "nonobj" a lastError non-object.     *)
(* For the last two, type is "undefined" and retryable (undefined) FALSE.  *)
(***************************************************************************)
Err(shape, type, code, message, provider, retryable) ==
  [shape |-> shape, type |-> type, code |-> code, message |-> message,
   provider |-> provider, retryable |-> retryable]

\* Errors a provider p can throw from chat/chatStream: two LLMCoreErrors,
\* an Error without a type field, and a thrown non-object.
ProviderErrors(p) ==
  { Err("typed", "server_error", "SERVER_ERROR", "Provider error", p, TRUE),
    Err("typed", "authentication", "INVALID_API_KEY", "Authentication error", p, FALSE),
    Err("raw", "undefined", "undefined", "socket hang up", None, FALSE),
    Err("nonobj", "undefined", "undefined", "undefined", None, FALSE) }

createRouterError(code, message) ==
  Err("typed", "network", code, message, "router", FALSE)

\* Variant: every thrown object is retried.
isRetryableError_any(e) == e.shape # "nonobj"

isRetryableError(e) ==
  /\ e.shape # "nonobj"
  /\ \/ e.type = "rate_limit"
     \/ e.type = "server_error"
     \/ e.type = "network"
     \/ e.retryable = TRUE

\* Variant: the caught value is rethrown as it is.
mapProviderError_rethrow(e, p) == e

mapProviderError(e, p) ==
  IF e.shape = "typed"
  THEN e
  ELSE Err("typed", "unknown", "PROVIDER_ERROR",
           IF e.shape = "raw" THEN e.message ELSE "Unknown provider error",
           p, FALSE)


(***************************************************************************)
(* State.                                                                  *)
(***************************************************************************)
VARIABLES
  options,          \* ProviderRouter.options (RouterOptions after the merge)
  config,           \* what the ConfigurationManager holds
  providers,        \* ProviderRouter.providers: names in Map insertion order
  metrics,          \* ProviderRouter.metrics: name -> ProviderMetrics
  isInitialized,    \* LLMCore.isInitialized
  healthCheckTimer, \* LLMCore.healthCheckTimer is set
  init,             \* the initialize() call in progress, if any
  task,             \* chat/chatStream calls in flight: position and locals
  out,              \* what the step just taken returned to its caller
  now,              \* Date.now(), in ticks
  started,          \* chat/chatStream/getModels/estimateCost calls issued so far
  inits,            \* initialize() calls issued so far
  lastShutdown      \* the value of inits when shutdown() was last called, or -1

vars == <<options, config, providers, metrics, isInitialized,
          healthCheckTimer, init, task, out, now, started, inits,
          lastShutdown>>

(***************************************************************************)
(* ProviderRouter constructor.  The caller's RouterOptions name the keys   *)
(* they set (given); inside a circuitBreaker object an absent field reads  *)
(* as undefined, modelled by FALSE and 0.                                  *)
(***************************************************************************)
DefaultOptions ==
  [enableFallback |-> TRUE, retryDelay |-> 1000,
   circuitBreaker |-> [enabled |-> TRUE, failureThreshold |-> 5,
                       resetTimeout |-> 60000]]

\* Variant: the circuitBreaker object is merged field by field.
constructorOptions_deepMerge(caller) ==
  LET cb == caller.circuitBreaker IN
  [enableFallback |-> IF "enableFallback" \in caller.given
                      THEN caller.enableFallback ELSE DefaultOptions.enableFallback,
   retryDelay     |-> IF "retryDelay" \in caller.given
                      THEN caller.retryDelay ELSE DefaultOptions.retryDelay,
   circuitBreaker |-> IF "circuitBreaker" \in caller.given
                      THEN [enabled |-> IF "enabled" \in caller.cbGiven THEN cb.enabled
                                        ELSE DefaultOptions.circuitBreaker.enabled,
                            failureThreshold |->
                              IF "failureThreshold" \in caller.cbGiven THEN cb.failureThreshold
                              ELSE DefaultOptions.circuitBreaker.failureThreshold,
                            resetTimeout |->
                              IF "resetTimeout" \in caller.cbGiven THEN cb.resetTimeout
                              ELSE DefaultOptions.circuitBreaker.resetTimeout]
                      ELSE DefaultOptions.circuitBreaker]

\* this.options = { ...defaults, ...options }
constructorOptions(caller) ==
  [enableFallback |-> IF "enableFallback" \in caller.given
                      THEN caller.enableFallback ELSE DefaultOptions.enableFallback,
   retryDelay     |-> IF "retryDelay" \in caller.given
                      THEN caller.retryDelay ELSE DefaultOptions.retryDelay,
   circuitBreaker |-> IF "circuitBreaker" \in caller.given
                      THEN caller.circuitBreaker ELSE DefaultOptions.circuitBreaker]

(***************************************************************************)
(* ConfigurationManager.                                                   *)
(***************************************************************************)
\* config.providerKeys: the keys of config.providers in insertion order;
\* config.invalidProviders: the keys whose settings fail validateProviderConfig;
\* config.validProviders: validateConfig().validProviders.

\* validateConfig().validProviders of a configuration with these keys.
validProvidersOf(keys, invalid) == SelectSeq(keys, LAMBDA p : p \notin invalid)

\* validateConfig().isValid
validateConfigIsValid ==
  /\ config.invalidProviders = {}
  /\ config.defaultProvider = None \/ config.defaultProvider \in Range(config.validProviders)

\* config.providers[p] is set (getProviderConfig does not throw).
Configured(p) == p \in Range(config.providerKeys)

\* ConfigurationManager.updateProviderConfig; valid tells whether the new
\* settings pass validateProviderConfig.
updateProviderConfig(p, valid) ==
  LET keys    == IF Configured(p) THEN config.providerKeys
                 ELSE Append(config.providerKeys, p)
      invalid == IF valid THEN config.invalidProviders \ {p}
                 ELSE config.invalidProviders \cup {p}
  IN [config EXCEPT !.providerKeys = keys, !.invalidProviders = invalid,
                    !.validProviders = validProvidersOf(keys, invalid)]

\* ConfigurationManager.removeProviderConfig
removeProviderConfig(p) ==
  LET keys    == SelectSeq(config.providerKeys, LAMBDA q : q # p)
      invalid == config.invalidProviders \ {p}
  IN [config EXCEPT !.providerKeys = keys, !.invalidProviders = invalid,
                    !.validProviders = validProvidersOf(keys, invalid)]

\* getDefaultProvider(); None stands for the NO_VALID_PROVIDERS throw.
getDefaultProvider ==
  IF Len(config.validProviders) = 0 THEN None
  ELSE IF config.defaultProvider # None
          /\ config.defaultProvider \in Range(config.validProviders)
       THEN config.defaultProvider
       ELSE config.validProviders[1]

getDefaultModel(p) ==
  CASE p = "openai" -> "gpt-4o-mini"
    [] p = "claude" -> "claude-3-haiku-20240307"
    [] OTHER        -> "llama-3.1-8b-instant"

getRetryConfig ==
  [maxAttempts       |-> IF config.retries # 0 THEN config.retries ELSE DefaultMaxAttempts,
   backoffMultiplier |-> BackoffMultiplier,
   maxDelay          |-> IF config.retryDelay # 0
                         THEN config.retryDelay * MaxDelayFactor
                         ELSE DefaultMaxDelay]

\* Variant: the shipped manager answers with a candidate list.
getFallbackConfig_listed ==
  IF config.injected
  THEN config.fallback
  ELSE [enabled |-> config.featuresRetries, providers |-> <<"claude">>]

\* getFallbackConfig().  The shipped manager answers with an empty list; a
\* manager injected into the ProviderRouter constructor (config.injected)
\* answers with its own record.
getFallbackConfig ==
  IF config.injected
  THEN config.fallback
  ELSE [enabled |-> config.featuresRetries, providers |-> <<>>]

(***************************************************************************)
(* ProviderRouter: metrics and circuit breaker.                            *)
(***************************************************************************)
Rate(n, d) == [num |-> n, den |-> d]

initializeMetrics ==
  [requests |-> 0, failures |-> 0, successRate |-> Rate(1, 1),
   lastFailure |-> -1, isCircuitOpen |-> FALSE]

\* Variant: the breaker opens one failure late.
shouldOpenCircuitBreaker_late(m) ==
  LET threshold == IF options.circuitBreaker.failureThreshold # 0
                   THEN options.circuitBreaker.failureThreshold
                   ELSE DefaultFailureThreshold
  IN  m.failures > threshold

shouldOpenCircuitBreaker(m) ==
  LET threshold == IF options.circuitBreaker.failureThreshold # 0
                   THEN options.circuitBreaker.failureThreshold
                   ELSE DefaultFailureThreshold
  IN  m.failures >= threshold

\* Variant: the cool-down is over as soon as resetTimeout is reached.
shouldResetCircuitBreaker_early(m, t) ==
  IF m.lastFailure = -1 THEN TRUE
  ELSE LET resetTimeout == IF options.circuitBreaker.resetTimeout # 0
                           THEN options.circuitBreaker.resetTimeout
                           ELSE DefaultResetTimeout
       IN  t - m.lastFailure >= resetTimeout

shouldResetCircuitBreaker(m, t) ==
  IF m.lastFailure = -1 THEN TRUE
  ELSE LET resetTimeout == IF options.circuitBreaker.resetTimeout # 0
                           THEN options.circuitBreaker.resetTimeout
                           ELSE DefaultResetTimeout
       IN  t - m.lastFailure > resetTimeout

recordSuccess(ms, p, t) ==
  IF p \notin DOMAIN ms THEN ms
  ELSE LET m  == ms[p]
           m1 == [m EXCEPT !.requests = m.requests + 1]
           m2 == [m1 EXCEPT !.successRate = Rate(m1.requests - m1.failures, m1.requests)]
           m3 == IF m2.isCircuitOpen /\ shouldResetCircuitBreaker(m2, t)
                 THEN [m2 EXCEPT !.isCircuitOpen = FALSE]
                 ELSE m2
       IN  [ms EXCEPT ![p] = m3]

recordFailure(ms, p, t) ==
  IF p \notin DOMAIN ms THEN ms
  ELSE LET m  == ms[p]
           m1 == [m EXCEPT !.requests = m.requests + 1, !.failures = m.failures + 1]
           m2 == [m1 EXCEPT !.successRate = Rate(m1.requests - m1.failures, m1.requests),
                            !.lastFailure = t]
           m3 == IF options.circuitBreaker.enabled /\ shouldOpenCircuitBreaker(m2)
                 THEN [m2 EXCEPT !.isCircuitOpen = TRUE]
                 ELSE m2
       IN  [ms EXCEPT ![p] = m3]

\* Variant: the failure count survives the reset.
resetCircuitBreaker_keepsFailures(ms, p) ==
  IF p \notin DOMAIN ms THEN ms
  ELSE [ms EXCEPT ![p] = [@ EXCEPT !.isCircuitOpen = FALSE,
                                   !.lastFailure = -1]]

resetCircuitBreaker(ms, p) ==
  IF p \notin DOMAIN ms THEN ms
  ELSE [ms EXCEPT ![p] = [@ EXCEPT !.isCircuitOpen = FALSE,
                                   !.failures = 0,
                                   !.lastFailure = -1]]

\* Variant: the breaker is not consulted.
isProviderAvailable_registered(provs, ms, p) == p \in Range(provs)

isProviderAvailable(provs, ms, p) ==
  IF p \notin Range(provs) THEN FALSE
  ELSE IF p \in DOMAIN ms THEN ~ms[p].isCircuitOpen ELSE FALSE

getAvailableProviders == providers

(***************************************************************************)
(* ProviderRouter: selection.                                              *)
(***************************************************************************)
getProviderForModel(model) ==
  CASE model = "gpt-4o-mini"             -> "openai"
    [] model = "claude-3-haiku-20240307" -> "claude"
    [] model = "llama-3.1-8b-instant"    -> "groq"
    [] OTHER                             -> None

\* The last-resort loop over the Map, in insertion order.
FirstAvailable(provs, ms) ==
  LET idx == {i \in 1..Len(provs) : isProviderAvailable(provs, ms, provs[i])}
  IN  IF idx = {} THEN None
      ELSE provs[CHOOSE i \in idx : \A j \in idx : i <= j]

\* Variant: the default provider is tried before the model's provider.
selectProvider_defaultFirst(provs, ms, rq) ==
  IF rq.provider # None /\ isProviderAvailable(provs, ms, rq.provider)
  THEN rq.provider
  ELSE LET providerForModel == getProviderForModel(rq.model)
           defaultProvider  == getDefaultProvider
       IN  IF defaultProvider # None /\ isProviderAvailable(provs, ms, defaultProvider)
           THEN defaultProvider
           ELSE IF providerForModel # None /\ isProviderAvailable(provs, ms, providerForModel)
                THEN providerForModel
                ELSE FirstAvailable(provs, ms)

selectProvider(provs, ms, rq) ==
  IF rq.provider # None /\ isProviderAvailable(provs, ms, rq.provider)
  THEN rq.provider
  ELSE LET providerForModel == getProviderForModel(rq.model)
           defaultProvider  == getDefaultProvider
       IN  IF providerForModel # None /\ isProviderAvailable(provs, ms, providerForModel)
           THEN providerForModel
           ELSE IF defaultProvider # None /\ isProviderAvailable(provs, ms, defaultProvider)
                THEN defaultProvider
                ELSE FirstAvailable(provs, ms)


(***************************************************************************)
(* Request tasks.                                                          *)
(***************************************************************************)
NoError   == Err("none", "none", "none", "none", None, FALSE)
NoResult  == [kind |-> "none", from |-> None, error |-> NoError]
NoRequest == [provider |-> None, model |-> None]

\* pc: idle | awaitChat | sleeping | awaitFallback | awaitStream | done
\* sent: the provider field of the request object handed to the last
\*       provider call; calls: provider calls issued, per provider;
\* sleeps: the backoff delays slept so far; lastError: the error caught
\* last from the selected provider (executeWithRetry's lastError).
IdleTask ==
  [pc |-> "idle", via |-> None, method |-> None, request |-> NoRequest,
   sel |-> None, attempt |-> 0, fbIdx |-> 0, sent |-> None,
   calls |-> [n \in Names |-> 0], sleeps |-> <<>>,
   lastError |-> NoError, result |-> NoResult]

IdleInit == [pc |-> "idle", idx |-> 0, valid |-> <<>>, viaCore |-> FALSE, passed |-> {},
             result |-> "none"]

\* out: kind "none" when the step returned nothing to a caller; "request"
\* when a chat/chatStream call settled (task is the settled call);
\* "initialize" when an initialize() call settled (init is that call);
\* "reset" when resetCircuitBreaker(provider) returned; "shutdown" when
\* shutdown() returned.
NoOut == [kind |-> "none", task |-> IdleTask, init |-> IdleInit, provider |-> None]

\* LLMCore.enhanceError
enhanceError(e, rq) ==
  IF e.shape = "typed" /\ e.provider # "undefined"
  THEN e
  ELSE Err("typed", "unknown", "REQUEST_FAILED", e.message, rq.provider, FALSE)

Reject(tk, e) ==
  [tk EXCEPT !.pc = "done",
             !.result = [kind |-> "error", from |-> None,
                         error |-> IF tk.via = "core"
                                   THEN enhanceError(e, tk.request) ELSE e]]

Resolve(tk, kind, p) ==
  [tk EXCEPT !.pc = "done",
             !.result = [kind |-> kind, from |-> p, error |-> NoError]]

\* Task t continues as tk: a settled call leaves its slot and is returned.
Continue(t, tk) ==
  /\ task' = [task EXCEPT ![t] = IF tk.pc = "done" THEN IdleTask ELSE tk]
  /\ out' = IF tk.pc = "done"
            THEN [NoOut EXCEPT !.kind = "request", !.task = tk]
            ELSE NoOut

\* A provider call is issued: provider.chat / provider.chatStream is invoked.
IssueCall(tk, p, pc, sentProvider) ==
  [tk EXCEPT !.pc = pc, !.sent = sentProvider, !.calls[p] = @ + 1]

\* Variant: the excluded provider is not skipped.
NextCandidate_includesPrimary(provs, ms, list, from, exclude) ==
  LET idx == {i \in from..Len(list) : isProviderAvailable(provs, ms, list[i])}
  IN  IF idx = {} THEN 0 ELSE CHOOSE i \in idx : \A j \in idx : i <= j

\* The index of the next fallback candidate that is neither the excluded
\* provider nor unavailable, from index `from` on; 0 when there is none.
NextCandidate(provs, ms, list, from, exclude) ==
  LET idx == {i \in from..Len(list) :
                list[i] # exclude /\ isProviderAvailable(provs, ms, list[i])}
  IN  IF idx = {} THEN 0 ELSE CHOOSE i \in idx : \A j \in idx : i <= j

\* The for loop of executeWithFallback, run from candidate index `from`
\* up to its next await or to the final throw.
FallbackLoop(tk, ms, from) ==
  LET list == getFallbackConfig.providers
      i    == NextCandidate(providers, ms, list, from, tk.sel)
  IN  IF i = 0
      THEN Reject(tk, createRouterError("ALL_FALLBACKS_FAILED", "All fallback providers failed"))
      ELSE IssueCall([tk EXCEPT !.fbIdx = i], list[i], "awaitFallback", list[i])

executeWithFallback(tk, ms) ==
  IF ~getFallbackConfig.enabled
  THEN Reject(tk, createRouterError("FALLBACK_DISABLED", "Fallback is disabled"))
  ELSE FallbackLoop(tk, ms, 1)

\* Variant: the delay is not capped at maxDelay.
RetryDelay_uncapped(attempt) ==
  options.retryDelay * Pow(getRetryConfig.backoffMultiplier, attempt - 1)

\* The delay slept after failed attempt number `attempt`.
RetryDelay(attempt) ==
  Min(options.retryDelay * Pow(getRetryConfig.backoffMultiplier, attempt - 1),
      getRetryConfig.maxDelay)

\* A caller's new request takes the lowest task slot that is not in flight;
\* limit bounds the calls issued in one behaviour.
StartableUpTo(t, limit) ==
  /\ task[t].pc = "idle"
  /\ \A u \in Tasks : u < t => task[u].pc # "idle"
  /\ started < limit

Startable(t) == StartableUpTo(t, MaxRequests)

\* Variant: the request is rewritten to name the selected provider.
RouterStart_rewrites(t, via, method, rq) ==
  LET tk == [IdleTask EXCEPT !.via = via, !.method = method, !.request = rq]
      p  == selectProvider(providers, metrics, rq)
  IN  /\ started' = started + 1
      /\ Continue(t,
           IF p = None
           THEN Reject(tk, createRouterError("NO_PROVIDER_AVAILABLE",
                  IF method = "chat"
                  THEN "No suitable provider available for request"
                  ELSE "No suitable provider available for streaming request"))
           ELSE IssueCall([tk EXCEPT !.sel = p, !.attempt = IF method = "chat" THEN 1 ELSE 0],
                          p, IF method = "chat" THEN "awaitChat" ELSE "awaitStream",
                          p))
      /\ UNCHANGED <<options, config, lastShutdown, providers, metrics, isInitialized,
                     healthCheckTimer, init, now, inits>>

\* ProviderRouter.chat / chatStream up to the first await.
RouterStart(t, via, method, rq) ==
  LET tk == [IdleTask EXCEPT !.via = via, !.method = method, !.request = rq]
      p  == selectProvider(providers, metrics, rq)
  IN  /\ started' = started + 1
      /\ Continue(t,
           IF p = None
           THEN Reject(tk, createRouterError("NO_PROVIDER_AVAILABLE",
                  IF method = "chat"
                  THEN "No suitable provider available for request"
                  ELSE "No suitable provider available for streaming request"))
           ELSE IssueCall([tk EXCEPT !.sel = p, !.attempt = IF method = "chat" THEN 1 ELSE 0],
                          p, IF method = "chat" THEN "awaitChat" ELSE "awaitStream",
                          rq.provider))
      /\ UNCHANGED <<options, config, lastShutdown, providers, metrics, isInitialized,
                     healthCheckTimer, init, now, inits>>

RouterChat(t, rq) ==
  /\ Startable(t)
  /\ RouterStart(t, "router", "chat", rq)

\* ProviderRouter.chat in the longer behaviours of SpecBreaker.
RouterChatLong(t, rq) ==
  /\ StartableUpTo(t, MaxBreakerRequests)
  /\ RouterStart(t, "router", "chat", rq)

RouterChatStream(t, rq) ==
  /\ Startable(t)
  /\ RouterStart(t, "router", "chatStream", rq)

\* The request LLMCore.chat / chatStream builds from the caller's options.
CoreRequest(optProvider, optModel) ==
  [provider |-> IF optProvider # None THEN optProvider ELSE getDefaultProvider,
   model    |-> IF optModel # None THEN optModel
                ELSE getDefaultModel(IF optProvider # None THEN optProvider
                                     ELSE getDefaultProvider)]

UninitializedError ==
  Err("raw", "undefined", "undefined", "LLMCore is not initialized", None, FALSE)

\* Variant: the request goes to the router without ensureInitialized.
CoreStart_unchecked(t, method, optProvider, optModel) ==
  /\ Startable(t)
  /\ RouterStart(t, "core", method, CoreRequest(optProvider, optModel))

\* LLMCore.chat / chatStream: ensureInitialized, then the router.
CoreStart(t, method, optProvider, optModel) ==
  /\ Startable(t)
  /\ IF ~isInitialized
     THEN /\ started' = started + 1
          /\ Continue(t, [IdleTask EXCEPT !.via = "core", !.method = method, !.pc = "done",
                                !.result = [kind |-> "error", from |-> None,
                                            error |-> UninitializedError]])
          /\ UNCHANGED <<options, config, lastShutdown, providers, metrics, isInitialized,
                         healthCheckTimer, init, now, inits>>
     ELSE RouterStart(t, "core", method, CoreRequest(optProvider, optModel))

CoreChat(t, optProvider, optModel) == CoreStart(t, "chat", optProvider, optModel)

CoreChatStream(t, optProvider, optModel) == CoreStart(t, "chatStream", optProvider, optModel)

\* LLMCore.getModels / estimateCost: ensureInitialized, then the
\* placeholder answer (an empty list, 0); the router is not involved.
CoreQuery(t, method) ==
  /\ Startable(t)
  /\ started' = started + 1
  /\ Continue(t, [IdleTask EXCEPT
                    !.via = "core", !.method = method, !.pc = "done",
                    !.result = IF ~isInitialized
                               THEN [kind |-> "error", from |-> None,
                                     error |-> UninitializedError]
                               ELSE [kind |-> "value", from |-> None,
                                     error |-> NoError]])
  /\ UNCHANGED <<options, config, lastShutdown, providers, metrics, isInitialized,
                 healthCheckTimer, init, now, inits>>

CoreGetModels(t) == CoreQuery(t, "getModels")

CoreEstimateCost(t) == CoreQuery(t, "estimateCost")

\* provider.chat resolves inside executeWithRetry.
ChatSucceeds(t) ==
  LET tk == task[t] IN
  /\ tk.pc = "awaitChat"
  /\ metrics' = recordSuccess(metrics, tk.sel, now)
  /\ Continue(t, Resolve(tk, "response", tk.sel))
  /\ UNCHANGED <<options, config, lastShutdown, providers, isInitialized, healthCheckTimer,
                 init, now, started, inits>>

\* Variant: one attempt more than maxAttempts is made.
ChatFails_offByOne(t, e) ==
  LET tk == task[t] IN
  /\ tk.pc = "awaitChat"
  /\ e \in ProviderErrors(tk.sel)
  /\ IF isRetryableError(e) /\ tk.attempt # getRetryConfig.maxAttempts + 1
     THEN /\ Continue(t, [tk EXCEPT !.pc = "sleeping", !.lastError = e,
                                    !.sleeps = Append(@, RetryDelay(tk.attempt))])
          /\ UNCHANGED metrics
     ELSE LET ms1 == recordFailure(metrics, tk.sel, now)
              tk1 == [tk EXCEPT !.lastError = e]
          IN  /\ metrics' = ms1
              /\ Continue(t,
                   IF options.enableFallback /\ isRetryableError(e)
                   THEN executeWithFallback(tk1, ms1)
                   ELSE Reject(tk1, mapProviderError(e, tk.sel)))
  /\ UNCHANGED <<options, config, lastShutdown, providers, isInitialized, healthCheckTimer,
                 init, now, started, inits>>

\* provider.chat rejects with e inside executeWithRetry.
ChatFails(t, e) ==
  LET tk == task[t] IN
  /\ tk.pc = "awaitChat"
  /\ e \in ProviderErrors(tk.sel)
  /\ IF isRetryableError(e) /\ tk.attempt # getRetryConfig.maxAttempts
     THEN /\ Continue(t, [tk EXCEPT !.pc = "sleeping", !.lastError = e,
                                    !.sleeps = Append(@, RetryDelay(tk.attempt))])
          /\ UNCHANGED metrics
     ELSE LET ms1 == recordFailure(metrics, tk.sel, now)
              tk1 == [tk EXCEPT !.lastError = e]
          IN  /\ metrics' = ms1
              /\ Continue(t,
                   IF options.enableFallback /\ isRetryableError(e)
                   THEN executeWithFallback(tk1, ms1)
                   ELSE Reject(tk1, mapProviderError(e, tk.sel)))
  /\ UNCHANGED <<options, config, lastShutdown, providers, isInitialized, healthCheckTimer,
                 init, now, started, inits>>

\* Variant: the retry is abandoned when the breaker has opened meanwhile.
SleepDone_checksBreaker(t) ==
  LET tk == task[t] IN
  /\ tk.pc = "sleeping"
  /\ Continue(t, IF isProviderAvailable(providers, metrics, tk.sel)
                 THEN IssueCall([tk EXCEPT !.attempt = @ + 1], tk.sel, "awaitChat",
                                tk.request.provider)
                 ELSE Reject(tk, mapProviderError(tk.lastError, tk.sel)))
  /\ UNCHANGED <<options, config, lastShutdown, providers, metrics, isInitialized,
                 healthCheckTimer, init, now, started, inits>>

\* The backoff sleep ends and the next attempt is issued.
SleepDone(t) ==
  LET tk == task[t] IN
  /\ tk.pc = "sleeping"
  /\ Continue(t, IssueCall([tk EXCEPT !.attempt = @ + 1], tk.sel, "awaitChat",
                           tk.request.provider))
  /\ UNCHANGED <<options, config, lastShutdown, providers, metrics, isInitialized,
                 healthCheckTimer, init, now, started, inits>>

\* Variant: after a candidate's success the loop goes on to the next one.
FallbackSucceeds_continues(t) ==
  LET tk == task[t] IN
  /\ tk.pc = "awaitFallback"
  /\ Continue(t, FallbackLoop(tk, metrics, tk.fbIdx + 1))
  /\ UNCHANGED <<options, config, lastShutdown, providers, metrics, isInitialized,
                 healthCheckTimer, init, now, started, inits>>

\* A fallback candidate's call resolves.
FallbackSucceeds(t) ==
  LET tk == task[t] IN
  /\ tk.pc = "awaitFallback"
  /\ Continue(t, Resolve(tk, "response", getFallbackConfig.providers[tk.fbIdx]))
  /\ UNCHANGED <<options, config, lastShutdown, providers, metrics, isInitialized,
                 healthCheckTimer, init, now, started, inits>>

\* A fallback candidate's call rejects.
FallbackFails(t, e) ==
  LET tk == task[t] IN
  /\ tk.pc = "awaitFallback"
  /\ e \in ProviderErrors(getFallbackConfig.providers[tk.fbIdx])
  /\ LET ms1 == recordFailure(metrics, getFallbackConfig.providers[tk.fbIdx], now)
     IN  /\ metrics' = ms1
         /\ Continue(t, FallbackLoop(tk, ms1, tk.fbIdx + 1))
  /\ UNCHANGED <<options, config, lastShutdown, providers, isInitialized, healthCheckTimer,
                 init, now, started, inits>>

\* provider.chatStream resolves inside ProviderRouter.chatStream.
StreamSucceeds(t) ==
  LET tk == task[t] IN
  /\ tk.pc = "awaitStream"
  /\ metrics' = recordSuccess(metrics, tk.sel, now)
  /\ Continue(t, Resolve(tk, "stream", tk.sel))
  /\ UNCHANGED <<options, config, lastShutdown, providers, isInitialized, healthCheckTimer,
                 init, now, started, inits>>

\* Variant: a failed stream call falls back the way chat does.
StreamFails_withFallback(t, e) ==
  LET tk == task[t] IN
  /\ tk.pc = "awaitStream"
  /\ e \in ProviderErrors(tk.sel)
  /\ LET ms1 == recordFailure(metrics, tk.sel, now)
         tk1 == [tk EXCEPT !.lastError = e]
     IN  /\ metrics' = ms1
         /\ Continue(t,
              IF options.enableFallback /\ isRetryableError(e)
              THEN executeWithFallback(tk1, ms1)
              ELSE Reject(tk1, mapProviderError(e, tk.sel)))
  /\ UNCHANGED <<options, config, lastShutdown, providers, isInitialized, healthCheckTimer,
                 init, now, started, inits>>

\* provider.chatStream rejects inside ProviderRouter.chatStream.
StreamFails(t, e) ==
  LET tk == task[t] IN
  /\ tk.pc = "awaitStream"
  /\ e \in ProviderErrors(tk.sel)
  /\ metrics' = recordFailure(metrics, tk.sel, now)
  /\ Continue(t, Reject([tk EXCEPT !.lastError = e], mapProviderError(e, tk.sel)))
  /\ UNCHANGED <<options, config, lastShutdown, providers, isInitialized, healthCheckTimer,
                 init, now, started, inits>>

\* ProviderRouter.resetCircuitBreaker
ResetCircuitBreaker(p) ==
  /\ metrics' = resetCircuitBreaker(metrics, p)
  /\ out' = [NoOut EXCEPT !.kind = "reset", !.provider = p]
  /\ UNCHANGED <<options, config, lastShutdown, providers, isInitialized, healthCheckTimer,
                 init, task, now, started, inits>>

\* LLMCore.resetCircuitBreaker
CoreResetCircuitBreaker(p) ==
  /\ metrics' = IF isInitialized THEN resetCircuitBreaker(metrics, p) ELSE metrics
  /\ out' = [NoOut EXCEPT !.kind = "reset", !.provider = p]
  /\ UNCHANGED <<options, config, lastShutdown, providers, isInitialized, healthCheckTimer,
                 init, task, now, started, inits>>

\* LLMCore.updateProviderConfig (ConfigurationManager.updateProviderConfig
\* and a log line).
UpdateProviderConfig(p, valid) ==
  /\ config' = updateProviderConfig(p, valid)
  /\ out' = [NoOut EXCEPT !.kind = "updateProviderConfig", !.provider = p]
  /\ UNCHANGED <<options, lastShutdown, providers, metrics, isInitialized,
                 healthCheckTimer, init, task, now, started, inits>>

\* Variant: removing a provider's configuration also unregisters it.
RemoveProviderConfig_unregisters(p) ==
  /\ config' = removeProviderConfig(p)
  /\ providers' = SelectSeq(providers, LAMBDA q : q # p)
  /\ metrics' = [q \in DOMAIN metrics \ {p} |-> metrics[q]]
  /\ out' = [NoOut EXCEPT !.kind = "removeProviderConfig", !.provider = p]
  /\ UNCHANGED <<options, lastShutdown, isInitialized,
                 healthCheckTimer, init, task, now, started, inits>>

\* LLMCore.removeProviderConfig (ConfigurationManager.removeProviderConfig
\* and a log line).
RemoveProviderConfig(p) ==
  /\ config' = removeProviderConfig(p)
  /\ out' = [NoOut EXCEPT !.kind = "removeProviderConfig", !.provider = p]
  /\ UNCHANGED <<options, lastShutdown, providers, metrics, isInitialized,
                 healthCheckTimer, init, task, now, started, inits>>

\* ProviderRouter.getMetrics: returns a copy of the metrics map.
GetMetrics ==
  /\ out' = [NoOut EXCEPT !.kind = "getMetrics"]
  /\ UNCHANGED <<options, config, lastShutdown, providers, metrics, isInitialized,
                 healthCheckTimer, init, task, now, started, inits>>

\* ProviderRouter.getAvailableProviders: returns the registry's keys.
GetAvailableProviders ==
  /\ out' = [NoOut EXCEPT !.kind = "getAvailableProviders"]
  /\ UNCHANGED <<options, config, lastShutdown, providers, metrics, isInitialized,
                 healthCheckTimer, init, task, now, started, inits>>

\* ProviderRouter.isProviderAvailable
IsProviderAvailable(p) ==
  /\ out' = [NoOut EXCEPT !.kind = "isProviderAvailable", !.provider = p]
  /\ UNCHANGED <<options, config, lastShutdown, providers, metrics, isInitialized,
                 healthCheckTimer, init, task, now, started, inits>>

Tick ==
  /\ now < MaxTime
  /\ now' = now + 1
  /\ out' = NoOut
  /\ UNCHANGED <<options, config, lastShutdown, providers, metrics, isInitialized,
                 healthCheckTimer, init, task, started, inits>>

(***************************************************************************)
(* initialize() and shutdown().                                            *)
(***************************************************************************)
\* init.pc: idle | health (awaiting getHealth of valid[idx]);
\* valid: validation.validProviders as computed when the call started;
\* passed: providers whose getHealth answered status "active" in this call;
\* result: how the call ended.

\* An initialize() call settles with `result`.
InitSettles(call, result) ==
  /\ init' = IdleInit
  /\ out' = [NoOut EXCEPT !.kind = "initialize",
                          !.init = [call EXCEPT !.pc = "done", !.result = result]]

\* The end of ProviderRouter.initialize once the loop is over, and the rest
\* of LLMCore.initialize when the call came through the facade.
InitFinish(call, provs) ==
  IF Len(provs) = 0
  THEN /\ InitSettles(call, "NO_PROVIDERS_AVAILABLE")
       /\ UNCHANGED <<isInitialized, healthCheckTimer>>
  ELSE /\ InitSettles(call, "ok")
       /\ isInitialized' = (isInitialized \/ call.viaCore)
       /\ healthCheckTimer' = (healthCheckTimer \/ call.viaCore)

\* LLMCore.initialize (viaCore) or ProviderRouter.initialize called directly,
\* up to the first await.
InitializeStart(viaCore) ==
  LET call == [IdleInit EXCEPT !.viaCore = viaCore] IN
  /\ init.pc = "idle"
  /\ inits < MaxInits
  /\ inits' = inits + 1
  /\ IF ~validateConfigIsValid
     THEN /\ InitSettles(call, "INITIALIZATION_FAILED")
          /\ UNCHANGED <<isInitialized, healthCheckTimer>>
     ELSE IF Len(config.validProviders) = 0
          THEN InitFinish(call, providers)
          ELSE /\ init' = [call EXCEPT !.pc = "health", !.idx = 1,
                                       !.valid = config.validProviders]
               /\ out' = NoOut
               /\ UNCHANGED <<isInitialized, healthCheckTimer>>
  /\ UNCHANGED <<options, config, lastShutdown, providers, metrics, task, now, started>>

\* provider.getHealth() settles: h is "active" or "error" (the status of the
\* ProviderHealth it resolves with) or "throws" (it rejects).  The loop then
\* runs on to the next provider of the snapshot whose construction succeeds:
\* one whose configuration was removed meanwhile is skipped
\* (getProviderConfig throws), one whose settings were replaced by invalid
\* ones is skipped or not (the provider constructors decide).
HealthReturns(h) ==
  LET name   == init.valid[init.idx]
      provs1 == IF h = "throws" THEN providers
                ELSE IF name \in Range(providers) THEN providers
                     ELSE Append(providers, name)
      ms1    == IF h = "throws" THEN metrics
                ELSE (name :> initializeMetrics) @@ metrics
      call   == IF h = "active" THEN [init EXCEPT !.passed = @ \cup {name}] ELSE init
      rest   == (init.idx + 1)..Len(init.valid)
      MaySkip(k) == init.valid[k] \notin Range(config.validProviders)
  IN
  /\ init.pc = "health"
  /\ providers' = provs1
  /\ metrics' = ms1
  /\ \/ \E j \in rest :
          /\ Configured(init.valid[j])
          /\ \A k \in rest : k < j => MaySkip(k)
          /\ init' = [call EXCEPT !.idx = j]
          /\ out' = NoOut
          /\ UNCHANGED <<isInitialized, healthCheckTimer>>
     \/ /\ \A k \in rest : MaySkip(k)
        /\ InitFinish(call, provs1)
  /\ UNCHANGED <<options, config, lastShutdown, task, now, started, inits>>

\* LLMCore.shutdown
Shutdown ==
  /\ healthCheckTimer' = FALSE
  /\ isInitialized' = FALSE
  /\ lastShutdown' = inits
  /\ out' = [NoOut EXCEPT !.kind = "shutdown"]
  /\ UNCHANGED <<options, config, providers, metrics, init, task, now,
                 started, inits>>

(***************************************************************************)
(* Explored configurations and the specifications.                         *)
(***************************************************************************)
\* Requests handed to ProviderRouter.chat / chatStream directly, and the
\* options handed to LLMCore.chat / chatStream.
Requests == [provider : {None, "openai", "claude"},
             model : {"claude-3-haiku-20240307", "invalid-model"}]

CoreOptions == [provider : {None, "openai", "claude"},
                model : {None, "invalid-model"}]

HealthOutcomes == {"active", "error", "throws"}

\* The state right after construction.
InitState ==
  /\ providers = <<>>
  /\ metrics = <<>>
  /\ isInitialized = FALSE
  /\ healthCheckTimer = FALSE
  /\ init = IdleInit
  /\ task = [t \in Tasks |-> IdleTask]
  /\ out = NoOut
  /\ now = 0
  /\ started = 0
  /\ inits = 0
  /\ lastShutdown = -1

\* The caller awaits each call before issuing the next one.
Quiet == \A t \in Tasks : task[t].pc = "idle"

\* What the provider calls in flight can do.
Settle ==
  \/ \E t \in Tasks : ChatSucceeds(t)
  \/ \E t \in Tasks, p \in Names : \E e \in ProviderErrors(p) : ChatFails(t, e)
  \/ \E t \in Tasks : SleepDone(t)
  \/ \E t \in Tasks : FallbackSucceeds(t)
  \/ \E t \in Tasks, p \in Names : \E e \in ProviderErrors(p) : FallbackFails(t, e)
  \/ \E t \in Tasks : StreamSucceeds(t)
  \/ \E t \in Tasks, p \in Names : \E e \in ProviderErrors(p) : StreamFails(t, e)
  \/ \E h \in HealthOutcomes : HealthReturns(h)

(***************************************************************************)
(* Spec: a program that drives a ProviderRouter directly, one call at a    *)
(* time, under every combination of the fallback switches.                 *)
(***************************************************************************)
RouterOptionsSet ==
  [enableFallback : BOOLEAN,
   retryDelay     : {1000},
   circuitBreaker : [enabled : {TRUE}, failureThreshold : {2},
                     resetTimeout : {1}]]

ConfigSet ==
  [providerKeys : {<<"openai", "claude">>}, invalidProviders : {{}},
   validProviders  : {<<"openai", "claude">>},
   defaultProvider : {None, "claude"},
   retries         : {2},
   retryDelay      : {1000},
   featuresRetries : {TRUE},
   injected        : {TRUE},
   fallback        : [enabled : BOOLEAN, providers : {<<"claude">>}]]

Init ==
  /\ options \in RouterOptionsSet
  /\ config \in ConfigSet
  /\ InitState

Next ==
  \/ InitializeStart(FALSE)
  \/ \E t \in Tasks, rq \in Requests : Quiet /\ RouterChat(t, rq)
  \/ \E t \in Tasks, rq \in Requests : Quiet /\ RouterChatStream(t, rq)
  \/ \E p \in Names : ResetCircuitBreaker(p)
  \/ Settle

Spec == Init /\ [][Next]_vars

(***************************************************************************)
(* SpecCore: a program that drives the router through the LLMCore facade.  *)
(***************************************************************************)
NextCore ==
  \/ InitializeStart(TRUE)
  \/ Shutdown
  \/ \E t \in Tasks, o \in CoreOptions : Quiet /\ CoreChat(t, o.provider, o.model)
  \/ \E t \in Tasks, o \in CoreOptions : Quiet /\ CoreChatStream(t, o.provider, o.model)
  \/ \E t \in Tasks : Quiet /\ CoreGetModels(t)
  \/ \E t \in Tasks : Quiet /\ CoreEstimateCost(t)
  \/ \E p \in Names : CoreResetCircuitBreaker(p)
  \/ Settle

SpecCore == Init /\ [][NextCore]_vars

(***************************************************************************)
(* SpecConc: concurrent callers of an initialized router whose two         *)
(* providers passed their health check, with the clock running.            *)
(***************************************************************************)
ConcRequests == [provider : {"openai", "claude"}, model : {"invalid-model"}]

InitConc ==
  /\ options = [enableFallback |-> TRUE, retryDelay |-> 1000,
                circuitBreaker |-> [enabled |-> TRUE, failureThreshold |-> 2,
                                    resetTimeout |-> 1]]
  /\ config = [providerKeys |-> <<"openai", "claude">>, invalidProviders |-> {},
               validProviders |-> <<"openai", "claude">>, defaultProvider |-> None,
               retries |-> 2, retryDelay |-> 1000, featuresRetries |-> TRUE,
               injected |-> TRUE,
               fallback |-> [enabled |-> TRUE, providers |-> <<"claude">>]]
  /\ providers = <<"openai", "claude">>
  /\ metrics = [p \in {"openai", "claude"} |-> initializeMetrics]
  /\ isInitialized = FALSE
  /\ healthCheckTimer = FALSE
  /\ init = IdleInit
  /\ task = [t \in Tasks |-> IdleTask]
  /\ out = NoOut
  /\ now = 0
  /\ started = 0
  /\ inits = 1
  /\ lastShutdown = -1

NextConc ==
  \/ \E t \in Tasks, rq \in ConcRequests : RouterChat(t, rq)
  \/ \E t \in Tasks, rq \in ConcRequests : RouterChatStream(t, rq)
  \/ \E p \in Names : ResetCircuitBreaker(p)
  \/ \E t \in Tasks : ChatSucceeds(t)
  \/ \E t \in Tasks, p \in Names : \E e \in ProviderErrors(p) : ChatFails(t, e)
  \/ \E t \in Tasks : SleepDone(t)
  \/ \E t \in Tasks : FallbackSucceeds(t)
  \/ \E t \in Tasks, p \in Names : \E e \in ProviderErrors(p) : FallbackFails(t, e)
  \/ \E t \in Tasks : StreamSucceeds(t)
  \/ \E t \in Tasks, p \in Names : \E e \in ProviderErrors(p) : StreamFails(t, e)
  \/ Tick

SpecConc == InitConc /\ [][NextConc]_vars

(***************************************************************************)
(* SpecRetry: one provider, fallback off, under every explored retry       *)
(* policy.                                                                 *)
(***************************************************************************)
RetryOptionsSet ==
  [enableFallback : {FALSE},
   retryDelay     : {1000, 20000},
   circuitBreaker : [enabled : {TRUE}, failureThreshold : {2}, resetTimeout : {1}]]

RetryConfigSet ==
  [providerKeys : {<<"openai">>}, invalidProviders : {{}},
   validProviders  : {<<"openai">>},
   defaultProvider : {None},
   retries         : {1, 2, 3},
   retryDelay      : {0, 1000},
   featuresRetries : {TRUE},
   injected        : {FALSE},
   fallback        : {[enabled |-> FALSE, providers |-> <<>>]}]

InitRetry ==
  /\ options \in RetryOptionsSet
  /\ config \in RetryConfigSet
  /\ InitState

NextRetry ==
  \/ InitializeStart(FALSE)
  \/ \E h \in HealthOutcomes : HealthReturns(h)
  \/ \E t \in Tasks, rq \in Requests : Quiet /\ RouterChat(t, rq)
  \/ \E t \in Tasks : ChatSucceeds(t)
  \/ \E t \in Tasks, p \in Names : \E e \in ProviderErrors(p) : ChatFails(t, e)
  \/ \E t \in Tasks : SleepDone(t)

SpecRetry == InitRetry /\ [][NextRetry]_vars

(***************************************************************************)
(* SpecFallback: an initialized router with fallback switched on, under   *)
(* several fallback lists and registries, one attempt per provider.       *)
(***************************************************************************)
FallbackLists ==
  {<<"groq", "claude">>, <<"openai", "groq", "claude">>, <<"claude", "groq">>}

FallbackRegistries == {<<"openai", "claude", "groq">>, <<"openai", "claude">>}

FallbackRequests == [provider : {"openai", "claude"}, model : {"invalid-model"}]

InitFallback ==
  /\ options = [enableFallback |-> TRUE, retryDelay |-> 1000,
                circuitBreaker |-> [enabled |-> TRUE, failureThreshold |-> 2,
                                    resetTimeout |-> 1]]
  /\ \E list \in FallbackLists :
       config = [providerKeys |-> <<"openai", "claude", "groq">>, invalidProviders |-> {},
                 validProviders |-> <<"openai", "claude", "groq">>,
                 defaultProvider |-> None, retries |-> 1, retryDelay |-> 1000,
                 featuresRetries |-> TRUE, injected |-> TRUE,
                 fallback |-> [enabled |-> TRUE, providers |-> list]]
  /\ providers \in FallbackRegistries
  /\ metrics = [p \in Range(providers) |-> initializeMetrics]
  /\ isInitialized = FALSE
  /\ healthCheckTimer = FALSE
  /\ init = IdleInit
  /\ task = [t \in Tasks |-> IdleTask]
  /\ out = NoOut
  /\ now = 0
  /\ started = 0
  /\ inits = 1
  /\ lastShutdown = -1

NextFallback ==
  \/ \E t \in Tasks, rq \in FallbackRequests : RouterChat(t, rq)
  \/ \E t \in Tasks : ChatSucceeds(t)
  \/ \E t \in Tasks, p \in Names : \E e \in ProviderErrors(p) : ChatFails(t, e)
  \/ \E t \in Tasks : FallbackSucceeds(t)
  \/ \E t \in Tasks, p \in Names : \E e \in ProviderErrors(p) : FallbackFails(t, e)

SpecFallback == InitFallback /\ [][NextFallback]_vars

(***************************************************************************)
(* SpecShipped: a router on the shipped ConfigurationManager, under every  *)
(* combination of enableFallback and features.retries.                     *)
(***************************************************************************)
ShippedOptionsSet ==
  [enableFallback : BOOLEAN,
   retryDelay     : {1000},
   circuitBreaker : [enabled : {TRUE}, failureThreshold : {2}, resetTimeout : {1}]]

ShippedConfigSet ==
  [providerKeys : {<<"openai", "claude">>}, invalidProviders : {{}},
   validProviders  : {<<"openai", "claude">>},
   defaultProvider : {None},
   retries         : {2},
   retryDelay      : {1000},
   featuresRetries : BOOLEAN,
   injected        : {FALSE},
   fallback        : {[enabled |-> FALSE, providers |-> <<>>]}]

InitShipped ==
  /\ options \in ShippedOptionsSet
  /\ config \in ShippedConfigSet
  /\ InitState

NextShipped ==
  \/ InitializeStart(FALSE)
  \/ \E h \in HealthOutcomes : HealthReturns(h)
  \/ \E t \in Tasks, rq \in Requests : Quiet /\ RouterChat(t, rq)
  \/ \E t \in Tasks : ChatSucceeds(t)
  \/ \E t \in Tasks, p \in Names : \E e \in ProviderErrors(p) : ChatFails(t, e)
  \/ \E t \in Tasks : SleepDone(t)

SpecShipped == InitShipped /\ [][NextShipped]_vars

(***************************************************************************)
(* SpecTerm: concurrent chat calls with retries and a fallback chain,      *)
(* where every provider call and every backoff sleep eventually ends.      *)
(***************************************************************************)
InitTerm ==
  /\ options = [enableFallback |-> TRUE, retryDelay |-> 1000,
                circuitBreaker |-> [enabled |-> TRUE, failureThreshold |-> 2,
                                    resetTimeout |-> 1]]
  /\ \E r \in {1, 2} :
       config = [providerKeys |-> <<"openai", "claude", "groq">>, invalidProviders |-> {},
                 validProviders |-> <<"openai", "claude", "groq">>,
                 defaultProvider |-> None, retries |-> r, retryDelay |-> 1000,
                 featuresRetries |-> TRUE, injected |-> TRUE,
                 fallback |-> [enabled |-> TRUE, providers |-> <<"groq", "claude">>]]
  /\ providers = <<"openai", "claude", "groq">>
  /\ metrics = [p \in Range(providers) |-> initializeMetrics]
  /\ isInitialized = FALSE
  /\ healthCheckTimer = FALSE
  /\ init = IdleInit
  /\ task = [t \in Tasks |-> IdleTask]
  /\ out = NoOut
  /\ now = 0
  /\ started = 0
  /\ inits = 1
  /\ lastShutdown = -1

\* The provider call or the sleep task t is waiting for ends.
TaskStep(t) ==
  \/ ChatSucceeds(t)
  \/ \E p \in Names : \E e \in ProviderErrors(p) : ChatFails(t, e)
  \/ SleepDone(t)
  \/ FallbackSucceeds(t)
  \/ \E p \in Names : \E e \in ProviderErrors(p) : FallbackFails(t, e)

NextTerm ==
  \/ \E t \in Tasks, rq \in FallbackRequests : RouterChat(t, rq)
  \/ \E t \in Tasks : TaskStep(t)

SpecTerm == InitTerm /\ [][NextTerm]_vars /\ \A t \in Tasks : WF_vars(TaskStep(t))

(***************************************************************************)
(* SpecFrame: a program that reads the router's state and changes the      *)
(* provider configuration while it initializes the router and issues       *)
(* calls, one call at a time.                                              *)
(***************************************************************************)
FrameRequests == [provider : {None, "claude"}, model : {"invalid-model"}]

\* The providers whose configuration the program changes.
FrameProviders == {"claude"}

InitFrame ==
  /\ options = [enableFallback |-> TRUE, retryDelay |-> 1000,
                circuitBreaker |-> [enabled |-> TRUE, failureThreshold |-> 2,
                                    resetTimeout |-> 1]]
  /\ config = [providerKeys |-> <<"openai", "claude">>, invalidProviders |-> {},
               validProviders |-> <<"openai", "claude">>, defaultProvider |-> None,
               retries |-> 2, retryDelay |-> 1000, featuresRetries |-> TRUE,
               injected |-> TRUE,
               fallback |-> [enabled |-> TRUE, providers |-> <<"claude">>]]
  /\ InitState

NextFrame ==
  \/ InitializeStart(FALSE)
  \/ \E t \in Tasks, rq \in FrameRequests : Quiet /\ RouterChat(t, rq)
  \/ \E t \in Tasks, rq \in FrameRequests : Quiet /\ RouterChatStream(t, rq)
  \/ \E p \in Names : ResetCircuitBreaker(p)
  \/ \E p \in FrameProviders, valid \in BOOLEAN : UpdateProviderConfig(p, valid)
  \/ \E p \in FrameProviders : RemoveProviderConfig(p)
  \/ GetMetrics
  \/ GetAvailableProviders
  \/ \E p \in FrameProviders : IsProviderAvailable(p)
  \/ Settle

SpecFrame == InitFrame /\ [][NextFrame]_vars

(***************************************************************************)
(* SpecBreaker: one provider, one attempt per call, under the circuit      *)
(* breaker options a caller can hand to the constructor.                   *)
(***************************************************************************)
\* A circuitBreaker object as the caller wrote it: the fields in cbGiven
\* carry the caller's values, the others are absent.
CallerBreaker(cbGiven, enabled, failureThreshold) ==
  [given |-> {"circuitBreaker"}, cbGiven |-> cbGiven,
   enableFallback |-> FALSE, retryDelay |-> 0,
   circuitBreaker |-> [enabled |-> enabled, failureThreshold |-> failureThreshold,
                       resetTimeout |-> 0]]

BreakerCallers ==
  { [given |-> {}, cbGiven |-> {}, enableFallback |-> FALSE, retryDelay |-> 0,
     circuitBreaker |-> [enabled |-> FALSE, failureThreshold |-> 0, resetTimeout |-> 0]],
    CallerBreaker({"failureThreshold"}, FALSE, 2),
    CallerBreaker({"enabled"}, TRUE, 0),
    CallerBreaker({"enabled", "failureThreshold"}, TRUE, 0),
    CallerBreaker({"enabled", "failureThreshold"}, TRUE, 2),
    CallerBreaker({"enabled", "failureThreshold"}, FALSE, 2) }

BreakerRequests == [provider : {"openai"}, model : {"invalid-model"}]

InitBreaker ==
  /\ \E caller \in BreakerCallers : options = constructorOptions(caller)
  /\ config = [providerKeys |-> <<"openai">>, invalidProviders |-> {},
               validProviders |-> <<"openai">>, defaultProvider |-> None,
               retries |-> 1, retryDelay |-> 1000, featuresRetries |-> TRUE,
               injected |-> FALSE,
               fallback |-> [enabled |-> FALSE, providers |-> <<>>]]
  /\ providers = <<"openai">>
  /\ metrics = [p \in {"openai"} |-> initializeMetrics]
  /\ isInitialized = FALSE
  /\ healthCheckTimer = FALSE
  /\ init = IdleInit
  /\ task = [t \in Tasks |-> IdleTask]
  /\ out = NoOut
  /\ now = 0
  /\ started = 0
  /\ inits = 1
  /\ lastShutdown = -1

NextBreaker ==
  \/ \E t \in Tasks, rq \in BreakerRequests : Quiet /\ RouterChatLong(t, rq)
  \/ \E t \in Tasks : ChatSucceeds(t)
  \/ \E t \in Tasks, p \in Names : \E e \in ProviderErrors(p) : ChatFails(t, e)

SpecBreaker == InitBreaker /\ [][NextBreaker]_vars

TypeOK ==
  /\ now \in 0..MaxTime
  /\ started \in 0..MaxRequests
  /\ Range(providers) = DOMAIN metrics


(***************************************************************************)
(* Properties.                                                             *)
(***************************************************************************)
InFlight(tk) == tk.pc \in {"awaitChat", "sleeping", "awaitFallback", "awaitStream"}

\* Task t issues a provider call to p in this step.
IssuesCall(t, p) ==
  /\ InFlight(task'[t])
  /\ task'[t].pc # "sleeping"
  /\ task'[t].calls[p] > (IF task[t].pc = "idle" THEN 0 ELSE task[t].calls[p])

\* The failure count of p has reached the threshold and the cool-down
\* since its last failure has not elapsed.
Tripped(p) ==
  /\ options.circuitBreaker.enabled
  /\ p \in DOMAIN metrics
  /\ metrics[p].failures >= options.circuitBreaker.failureThreshold
  /\ ~(now - metrics[p].lastFailure > options.circuitBreaker.resetTimeout)

C1_Unavailable ==
  \A p \in Range(providers) : Tripped(p) => ~isProviderAvailable(providers, metrics, p)

\* Every provider call that is not a retry of a call begun earlier (the
\* first attempt of a new chat/chatStream, or a fallback candidate) goes to
\* a provider that is not tripped at that moment.
C1_NotAttempted ==
  \A t \in Tasks, p \in Names :
    (IssuesCall(t, p) /\ task[t].pc # "sleeping") => ~Tripped(p)'

\* C1: with the circuit breaker enabled, once the failures of a registered
\* provider P have reached failureThreshold, isProviderAvailable(P) is false
\* and no later chat call selects P or issues a provider call to P, until
\* resetCircuitBreaker(P) is called or resetTimeout has elapsed since the
\* last failure.
C1_BreakerExcludes == []C1_Unavailable /\ [][C1_NotAttempted]_vars

\* A request naming openai explicitly was routed to claude while openai is
\* tripped.
C1_Witness ==
  /\ Tripped("openai")
  /\ \E t \in Tasks : /\ InFlight(task[t])
                      /\ task[t].request.provider = "openai"
                      /\ task[t].sel = "claude"


\* The call of task slot t as it stands after this step: still in its
\* slot, or settled and returned.
After(t) ==
  IF out'.kind = "request" /\ task'[t].pc = "idle" THEN out'.task ELSE task'[t]

\* A chat/chatStream call is issued in this step.
Starts == started' = started + 1

\* The fallback candidate task record tk is waiting for.
Candidate(tk) == getFallbackConfig.providers[tk.fbIdx]

\* C2 as stated, step by step: retry steps leave the metrics alone, the
\* primary's final failure adds one request and one failure to it, and the
\* fallback candidate that answers has its response returned and its
\* requests grown by one with its failures unchanged.
C2_Step ==
  \A t \in Tasks :
    /\ (task[t].pc = "awaitChat" /\ task'[t].pc = "sleeping") => metrics' = metrics
    /\ (task[t].pc = "sleeping" /\ task'[t].pc = "awaitChat") => metrics' = metrics
    /\ (task[t].pc = "awaitChat" /\ task'[t].pc = "awaitFallback") =>
         /\ metrics'[task[t].sel].requests = metrics[task[t].sel].requests + 1
         /\ metrics'[task[t].sel].failures = metrics[task[t].sel].failures + 1
    /\ (/\ task[t].pc = "awaitFallback"
        /\ task'[t].pc = "idle"
        /\ out'.kind = "request"
        /\ out'.task.result.kind = "response") =>
         /\ out'.task.result.from = Candidate(task[t])
         /\ metrics'[Candidate(task[t])].requests = metrics[Candidate(task[t])].requests + 1
         /\ metrics'[Candidate(task[t])].failures = metrics[Candidate(task[t])].failures

\* C2: when the primary P fails retryably on every attempt and a fallback
\* candidate Q succeeds, chat returns Q's response, requests(P) and
\* failures(P) each grow by exactly 1 and requests(Q) grows by exactly 1
\* with failures(Q) unchanged.
C2_FallbackMetrics == [][C2_Step]_vars

\* Every call the model knows about: in flight or just returned.
Calls == {task[t] : t \in Tasks} \cup {out.task}

\* Non-retryable in the sense of the retry policy: not one of the transient
\* kinds and not marked retryable.
NonRetryable(e) ==
  /\ e # NoError
  /\ e.type \notin {"rate_limit", "server_error", "network"}
  /\ ~e.retryable

\* C4: if the first chat attempt on the selected provider fails with a
\* non-retryable error, chat makes exactly one provider call, calls no
\* fallback candidate, and rejects with that error (the same message when
\* the thrown value carries one, and the same type when it carries one).
C4_NonRetryableShortCircuit ==
  \A c \in Calls :
    (c.method = "chat" /\ c.attempt = 1 /\ NonRetryable(c.lastError)) =>
      /\ c.pc = "done"
      /\ c.calls[c.sel] = 1
      /\ \A q \in Names \ {c.sel} : c.calls[q] = 0
      /\ c.result.kind = "error"
      /\ c.lastError.shape # "nonobj" => c.result.error.message = c.lastError.message
      /\ c.result.error.type = IF c.lastError.shape = "typed"
                               THEN c.lastError.type ELSE "unknown"
      /\ c.lastError.shape = "typed" => c.result.error = c.lastError

\* An authentication failure was returned although fallback was enabled
\* and claude was registered and closed.
C4_Witness ==
  /\ out.kind = "request"
  /\ out.task.method = "chat"
  /\ out.task.lastError.type = "authentication"
  /\ out.task.result.error.type = "authentication"
  /\ out.task.sel = "openai"
  /\ options.enableFallback
  /\ getFallbackConfig.enabled
  /\ isProviderAvailable(providers, metrics, "claude")

Closed(p) == p \in Range(providers) /\ p \in DOMAIN metrics /\ ~metrics[p].isCircuitOpen

\* The candidates of a request in the order of precedence.
Precedence(rq) ==
  <<rq.provider, getProviderForModel(rq.model), getDefaultProvider>> \o providers

FirstClosed(seq) ==
  IF \E i \in 1..Len(seq) : Closed(seq[i])
  THEN seq[CHOOSE i \in 1..Len(seq) : Closed(seq[i]) /\ \A j \in 1..(i - 1) : ~Closed(seq[j])]
  ELSE None

SelectRequests ==
  [provider : Names \cup {None},
   model : {"gpt-4o-mini", "claude-3-haiku-20240307", "llama-3.1-8b-instant", "invalid-model"}]

C5_Select ==
  \A rq \in SelectRequests :
    /\ selectProvider(providers, metrics, rq) = FirstClosed(Precedence(rq))
    /\ Closed(rq.provider) => selectProvider(providers, metrics, rq) = rq.provider

C5_Routed ==
  \A t \in Tasks :
    (Starts /\ InFlight(task'[t]) /\ ~InFlight(task[t])) =>
      /\ task'[t].sel = FirstClosed(Precedence(task'[t].request))
      /\ task'[t].calls[task'[t].sel] = 1

\* C5: selectProvider returns the first registered, Closed candidate in the
\* order request.provider, the model's provider, the default provider,
\* registration order; a request whose explicit provider is registered and
\* Closed is routed to exactly that provider.
C5_SelectionOrder == []C5_Select /\ [][C5_Routed]_vars

\* A request naming openai went to openai although its model maps to
\* claude and claude is the default provider, both registered and Closed.
C5_Witness ==
  \E t \in Tasks :
    /\ InFlight(task[t])
    /\ task[t].request = [provider |-> "openai", model |-> "claude-3-haiku-20240307"]
    /\ task[t].sel = "openai"
    /\ getDefaultProvider = "claude"
    /\ Closed("claude")

C6_Step ==
  (Starts /\ \A p \in Names : ~Closed(p)) =>
    /\ out'.kind = "request"
    /\ out'.task.result.kind = "error"
    /\ out'.task.result.error.code = "NO_PROVIDER_AVAILABLE"
    /\ \A p \in Names : out'.task.calls[p] = 0
    /\ metrics' = metrics
    /\ task' = task

\* C6: when no registered provider has a Closed breaker (or none is
\* registered), chat and chatStream reject with NO_PROVIDER_AVAILABLE
\* without any provider call and without touching metrics or breakers.
C6_NoProviderAvailable == [][C6_Step]_vars

\* A chatStream call was rejected while both registered providers were Open.
C6_Witness ==
  /\ out.kind = "request"
  /\ out.task.method = "chatStream"
  /\ out.task.result.error.code = "NO_PROVIDER_AVAILABLE"
  /\ Len(providers) = 2
  /\ \A p \in Range(providers) : metrics[p].isCircuitOpen


\* Retryable in the sense of the retry policy.
Transient(e) ==
  /\ e # NoError
  /\ (e.type \in {"rate_limit", "server_error", "network"} \/ e.retryable)

\* executeWithRetry gave up on a retryable error: every attempt of call c
\* failed with a retryable error.
RetryExhausted(c) ==
  /\ c.method = "chat"
  /\ Transient(c.lastError)
  /\ \/ c.pc = "awaitFallback"
     \/ c.pc = "done" /\ c.result.kind = "error"
     \/ c.pc = "done" /\ c.fbIdx > 0

\* C3: with maxAttempts = N and a provider that always fails retryably,
\* executeWithRetry issues exactly N provider calls and sleeps exactly N-1
\* times, the k-th sleep lasting min(baseDelay * multiplier^(k-1), maxDelay);
\* the delays are non-decreasing and never exceed maxDelay.
C3_RetryBound ==
  \A c \in Calls :
    RetryExhausted(c) =>
      LET N == getRetryConfig.maxAttempts IN
      /\ c.calls[c.sel] = N
      /\ Len(c.sleeps) = N - 1
      /\ \A k \in 1..(N - 1) :
           /\ c.sleeps[k] = Min(options.retryDelay * Pow(BackoffMultiplier, k - 1),
                                getRetryConfig.maxDelay)
           /\ c.sleeps[k] <= getRetryConfig.maxDelay
           /\ k > 1 => c.sleeps[k - 1] <= c.sleeps[k]

\* Three attempts were made and the second sleep was cut down to maxDelay.
C3_Witness ==
  /\ out.kind = "request"
  /\ RetryExhausted(out.task)
  /\ getRetryConfig.maxAttempts = 3
  /\ out.task.calls["openai"] = 3
  /\ out.task.sleeps = <<20000, 30000>>

\* C7 as stated: an initialize() during which no provider passed its
\* health check fails with NO_PROVIDERS_AVAILABLE, registers nothing and
\* leaves the system uninitialized.
C7_NoHealthyProvider ==
  (out.kind = "initialize" /\ validateConfigIsValid /\ out.init.passed = {}) =>
    /\ out.init.result = "NO_PROVIDERS_AVAILABLE"
    /\ providers = <<>>
    /\ ~isInitialized

\* The initialize() call of this step, after the step.
InitAfter == IF out'.kind = "initialize" THEN out'.init ELSE init'

\* C8 as stated: the provider whose getHealth() just settled is registered,
\* with zeroed metrics and a Closed breaker, exactly when the health check
\* succeeded; otherwise registry and metrics are as before.
C8_Step ==
  init.pc = "health" =>
    LET name == init.valid[init.idx] IN
    IF name \in InitAfter.passed
    THEN /\ name \in Range(providers')
         /\ metrics'[name].requests = 0
         /\ metrics'[name].failures = 0
         /\ ~metrics'[name].isCircuitOpen
    ELSE /\ providers' = providers
         /\ metrics' = metrics

\* C8: every settled health check registers the provider exactly when the
\* check passed (status active, no throw); a failed one leaves it absent.
C8_RegisterIffHealthy == [][C8_Step]_vars

\* C9 as stated: successRate * requests = requests - failures for every
\* registered provider with requests > 0, in every reachable state.
C9_SuccessRate ==
  \A p \in DOMAIN metrics :
    metrics[p].requests > 0 =>
      metrics[p].successRate.num * metrics[p].requests
        = (metrics[p].requests - metrics[p].failures) * metrics[p].successRate.den

C10_After ==
  out.kind = "reset" =>
    /\ out.provider \in Range(providers) =>
         /\ ~metrics[out.provider].isCircuitOpen
         /\ metrics[out.provider].failures = 0
         /\ metrics[out.provider].lastFailure = -1
         /\ isProviderAvailable(providers, metrics, out.provider)
    /\ resetCircuitBreaker(metrics, out.provider) = metrics

C10_Step ==
  out'.kind = "reset" =>
    /\ out'.provider \notin Range(providers) => metrics' = metrics
    /\ \A q \in DOMAIN metrics \ {out'.provider} : metrics'[q] = metrics[q]
    /\ providers' = providers

\* C10: resetCircuitBreaker(P) leaves a registered P Closed with failures 0
\* and no lastFailure, hence available; a second call in a row changes
\* nothing more; a call for an unregistered name changes nothing.
C10_ResetIdempotent == []C10_After /\ [][C10_Step]_vars

\* openai was reset after both of its two requests had failed, which had
\* opened its breaker.
C10_Witness ==
  /\ out.kind = "reset"
  /\ out.provider = "openai"
  /\ "openai" \in DOMAIN metrics
  /\ metrics["openai"].requests = 2
  /\ metrics["openai"].successRate.num = 0
  /\ metrics["openai"].failures = 0

\* C11 as stated: a name is in getAvailableProviders() exactly when it is
\* registered with a Closed breaker, i.e. when isProviderAvailable(name).
C11_AvailableAreClosed ==
  \A name \in Names :
    name \in Range(getAvailableProviders)
      <=> (/\ name \in Range(providers)
           /\ name \in DOMAIN metrics
           /\ ~metrics[name].isCircuitOpen
           /\ isProviderAvailable(providers, metrics, name))

\* The cool-down of p has elapsed: more than resetTimeout since lastFailure.
CooledDown(p) ==
  /\ p \in DOMAIN metrics
  /\ metrics[p].lastFailure # -1
  /\ now - metrics[p].lastFailure > options.circuitBreaker.resetTimeout

C12_Step ==
  \A t \in Tasks :
    (/\ Starts
     /\ ~InFlight(task[t])
     /\ After(t).request # NoRequest
     /\ After(t).request.provider \in Range(providers)
     /\ metrics[After(t).request.provider].isCircuitOpen
     /\ CooledDown(After(t).request.provider)) =>
       /\ After(t).sel = After(t).request.provider
       /\ After(t).calls[After(t).request.provider] = 1

\* C12 as stated: a request that names a registered provider P whose breaker
\* is Open, issued when more than resetTimeout has elapsed since P's last
\* failure and without any resetCircuitBreaker call, is routed to P.
C12_ClosesOnTime == [][C12_Step]_vars

\* A success is recorded for p in this step: one more request, no more
\* failures.
SuccessRecorded(p) ==
  /\ p \in DOMAIN metrics
  /\ p \in DOMAIN metrics'
  /\ metrics'[p].requests = metrics[p].requests + 1
  /\ metrics'[p].failures = metrics[p].failures

C13_Step ==
  \A p \in Names :
    SuccessRecorded(p) =>
      metrics'[p].isCircuitOpen =
        (/\ metrics[p].isCircuitOpen
         /\ metrics[p].lastFailure # -1
         /\ ~(now - metrics[p].lastFailure > options.circuitBreaker.resetTimeout))

\* C13: a success recorded for P while P's breaker is Open closes it when
\* now - lastFailure > resetTimeout or there is no lastFailure, and leaves
\* it Open otherwise; a success recorded while Closed leaves it Closed.
C13_SuccessCloses == [][C13_Step]_vars

\* A call answered by openai after openai's breaker had opened and cooled
\* down: the breaker is Closed with the failure count still at the
\* threshold.
C13_Witness ==
  /\ out.kind = "request"
  /\ out.task.result.kind \in {"response", "stream"}
  /\ out.task.result.from = "openai"
  /\ out.task.sel = "openai"
  /\ metrics["openai"].failures >= options.circuitBreaker.failureThreshold
  /\ CooledDown("openai")
  /\ ~metrics["openai"].isCircuitOpen

C14_Step ==
  \A p \in DOMAIN metrics :
    (p \in DOMAIN metrics' /\ metrics[p].isCircuitOpen /\ ~metrics'[p].isCircuitOpen)
      => metrics'[p].failures = 0

\* C14 as stated: every step that takes a breaker from Open to Closed,
\* explicit or implicit, leaves that provider with failures = 0.
C14_CloseZeroesFailures == [][C14_Step]_vars

\* Candidate p is passed over: it is the excluded provider, unregistered,
\* or its breaker is Open.
Skipped(provs, ms, p, exclude) ==
  \/ p = exclude
  \/ p \notin Range(provs)
  \/ p \notin DOMAIN ms
  \/ ms[p].isCircuitOpen

\* The fallback chain runs for a chat call that is awaiting its primary.
FallbackRuns(c) ==
  /\ options.enableFallback
  /\ getFallbackConfig.enabled
  /\ Transient(c.lastError)

C15_Step ==
  \A t \in Tasks :
    LET a    == task[t]
        b    == After(t)
        list == getFallbackConfig.providers
    IN
    /\ (a.pc \in {"awaitChat", "awaitFallback"} /\ b # a /\ b.pc = "awaitFallback") =>
         LET from == IF a.pc = "awaitChat" THEN 1 ELSE a.fbIdx + 1
             i    == b.fbIdx
         IN  /\ i \in from..Len(list)
             /\ ~Skipped(providers', metrics', list[i], a.sel)
             /\ \A j \in from..(i - 1) : Skipped(providers', metrics', list[j], a.sel)
             /\ b.calls = [a.calls EXCEPT ![list[i]] = @ + 1]
             /\ b.sent = list[i]
    /\ (a.pc = "awaitFallback" /\ b.pc = "done" /\ b.result.kind = "response") =>
         /\ b.result.from = list[a.fbIdx]
         /\ b.calls = a.calls
    /\ (a.pc = "awaitFallback" /\ b # a /\ ~(b.pc = "done" /\ b.result.kind = "response")) =>
         metrics'[list[a.fbIdx]].failures = metrics[list[a.fbIdx]].failures + 1
    /\ (a.pc = "awaitFallback" /\ b.pc = "done" /\ b.result.kind = "error") =>
         /\ b.result.error.code = "ALL_FALLBACKS_FAILED"
         /\ \A j \in (a.fbIdx + 1)..Len(list) :
              Skipped(providers', metrics', list[j], a.sel)
         /\ b.calls = a.calls
    /\ (a.pc = "awaitChat" /\ b.pc = "done" /\ b.result.kind = "error" /\ FallbackRuns(b)) =>
         /\ b.result.error.code = "ALL_FALLBACKS_FAILED"
         /\ \A j \in 1..Len(list) : Skipped(providers', metrics', list[j], a.sel)

\* C15: executeWithFallback visits the configured candidates in order,
\* skips the primary, unregistered providers and providers whose breaker is
\* Open, issues one call per visited candidate with request.provider set to
\* it, returns the first success without calling later candidates, records
\* a failure on each failing candidate, and rejects with
\* ALL_FALLBACKS_FAILED when no candidate succeeds.
C15_FallbackOrder == [][C15_Step]_vars

\* claude answered for a failed openai after groq, first in the list, was
\* passed over because its breaker was Open.
C15_Witness ==
  /\ out.kind = "request"
  /\ out.task.result.kind = "response"
  /\ out.task.result.from = "claude"
  /\ out.task.sel = "openai"
  /\ getFallbackConfig.providers = <<"groq", "claude">>
  /\ out.task.calls["groq"] = 0
  /\ out.task.calls["claude"] = 1
  /\ "groq" \in DOMAIN metrics
  /\ metrics["groq"].isCircuitOpen

\* The primary provider of settled chat call c failed: executeWithRetry
\* threw, so the response, if any, is not the primary's.
PrimaryFailed(c) ==
  /\ c.method = "chat"
  /\ c.pc = "done"
  /\ c.lastError # NoError
  /\ ~(c.result.kind = "response" /\ c.result.from = c.sel)

\* C16 as stated: with fallback disabled in the router options or in the
\* fallback configuration, a chat call whose primary provider fails rejects
\* with the primary's own error and calls no other provider.
C16_FallbackDisabled ==
  \A c \in Calls :
    (PrimaryFailed(c) /\ (~options.enableFallback \/ ~getFallbackConfig.enabled)) =>
      /\ c.result.kind = "error"
      /\ c.lastError.shape # "nonobj" => c.result.error.message = c.lastError.message
      /\ c.result.error.type = IF c.lastError.shape = "typed"
                               THEN c.lastError.type ELSE "unknown"
      /\ \A q \in Names \ {c.sel} : c.calls[q] = 0

\* Only the metrics of p may differ between this state and the next.
OnlyMetricsOf(p) ==
  /\ DOMAIN metrics' = DOMAIN metrics
  /\ \A q \in DOMAIN metrics \ {p} : metrics'[q] = metrics[q]

C17_Step ==
  \A t \in Tasks :
    LET a == task[t]
        b == After(t)
    IN
    /\ (Starts /\ ~InFlight(a) /\ b.method = "chatStream" /\ b.sel # None) =>
         /\ b.sel = FirstClosed(Precedence(b.request))
         /\ b.pc = "awaitStream"
         /\ b.calls = [n \in Names |-> IF n = b.sel THEN 1 ELSE 0]
         /\ b.sent = b.request.provider
         /\ metrics' = metrics
    /\ (a.pc = "awaitStream" /\ b # a) =>
         /\ b.pc = "done"
         /\ b.calls = a.calls
         /\ b.sleeps = <<>>
         /\ OnlyMetricsOf(a.sel)
         /\ metrics'[a.sel].requests = metrics[a.sel].requests + 1
         /\ IF b.result.kind = "stream"
            THEN /\ b.result.from = a.sel
                 /\ metrics'[a.sel].failures = metrics[a.sel].failures
            ELSE /\ b.result.kind = "error"
                 /\ b.lastError \in ProviderErrors(a.sel)
                 /\ b.lastError.shape # "nonobj" =>
                      b.result.error.message = b.lastError.message
                 /\ b.result.error.type = IF b.lastError.shape = "typed"
                                          THEN b.lastError.type ELSE "unknown"
                 /\ b.lastError.shape = "typed" => b.result.error = b.lastError
                 /\ metrics'[a.sel].failures = metrics[a.sel].failures + 1

\* C17: chatStream selects like chat and issues exactly one
\* provider.chatStream call; a failure, retryable or not, is not retried and
\* not passed to a fallback: one failure is recorded for the selected
\* provider and the call rejects with that provider's error; a success
\* records one success and returns the provider's stream.
C17_StreamSingleCall == [][C17_Step]_vars

\* A stream call on openai was rejected with openai's retryable server
\* error although fallback was enabled and claude was registered and Closed.
C17_Witness ==
  /\ out.kind = "request"
  /\ out.task.method = "chatStream"
  /\ out.task.sel = "openai"
  /\ out.task.result.kind = "error"
  /\ out.task.result.error.type = "server_error"
  /\ out.task.calls = [n \in Names |-> IF n = "openai" THEN 1 ELSE 0]
  /\ options.enableFallback
  /\ getFallbackConfig.enabled
  /\ Closed("claude")

\* A call through the facade was issued in this step and has settled in it.
CoreCallSettled ==
  /\ Starts
  /\ out'.kind = "request"
  /\ out'.task.via = "core"

\* The call returned in this step was turned away as uninitialized and
\* nothing reached the router or a provider.
RejectedUninitialized ==
  /\ CoreCallSettled
  /\ out'.task.result.kind = "error"
  /\ out'.task.result.error = UninitializedError
  /\ out'.task.sel = None
  /\ \A p \in Names : out'.task.calls[p] = 0
  /\ task' = task
  /\ metrics' = metrics
  /\ providers' = providers

C18_Fresh == inits = 0 => ~isInitialized

C18_Step ==
  /\ (~isInitialized /\ isInitialized') =>
       /\ out'.kind = "initialize"
       /\ out'.init.viaCore
       /\ out'.init.result = "ok"
  /\ (Starts /\ ~isInitialized) => RejectedUninitialized

\* C18: the facade is uninitialized until an initialize() call completes
\* successfully, and while it is uninitialized every chat, chatStream,
\* getModels and estimateCost call fails with the uninitialized error
\* without reaching the router or a provider.
C18_Uninitialized == []C18_Fresh /\ [][C18_Step]_vars

\* getModels was turned away while initialize() was still awaiting a health
\* check, although the router had already registered a provider.
C18_Witness ==
  /\ out.kind = "request"
  /\ out.task.method = "getModels"
  /\ out.task.result.error = UninitializedError
  /\ init.pc = "health"
  /\ providers # <<>>
  /\ ~isInitialized

\* C19 as stated: after shutdown() the facade is uninitialized with its
\* health-check timer cleared, and it stays uninitialized, turning away
\* every chat/chatStream call, until initialize() is called again.
C19_ShutdownIdempotent ==
  /\ out.kind = "shutdown" => (~isInitialized /\ ~healthCheckTimer)
  /\ lastShutdown = inits =>
       /\ ~isInitialized
       /\ ~healthCheckTimer
       /\ (out.kind = "request" /\ out.task.via = "core"
             /\ out.task.method \in {"chat", "chatStream"}) =>
            out.task.result.error = UninitializedError

C20_Step ==
  /\ Starts => metrics' = metrics
  /\ \A t \in Tasks :
       LET a == task[t]
           b == After(t)
       IN
       (a.method = "chat" /\ InFlight(a) /\ b # a) =>
         /\ (a.pc = "awaitChat" /\ b.pc = "sleeping") => metrics' = metrics
         /\ a.pc = "sleeping" => metrics' = metrics
         /\ (a.pc = "awaitChat" /\ b.pc # "sleeping") =>
              /\ OnlyMetricsOf(a.sel)
              /\ metrics'[a.sel].requests = metrics[a.sel].requests + 1
              /\ metrics'[a.sel].failures =
                   IF b.pc = "done" /\ b.result.kind = "response" /\ b.result.from = a.sel
                   THEN metrics[a.sel].failures
                   ELSE metrics[a.sel].failures + 1
         /\ a.pc = "awaitFallback" =>
              /\ OnlyMetricsOf(Candidate(a))
              /\ metrics'[Candidate(a)].requests = metrics[Candidate(a)].requests + 1

\* C20 as stated: a chat call changes metrics only at terminal outcomes:
\* the primary's requests grows by exactly 1 (and its failures by 1 on final
\* failure) however many attempts were made, every fallback candidate that
\* was called has its requests grown by exactly 1 when its call settles,
\* and no other provider's metrics change.
C20_MetricsPerOutcome == [][C20_Step]_vars

\* A settled chat/chatStream call of the router that was rejected.
Rejected(c) ==
  /\ c.pc = "done"
  /\ c.via = "router"
  /\ c.method \in {"chat", "chatStream"}
  /\ c.result.kind = "error"

\* C21: every error with which ProviderRouter.chat or chatStream rejects
\* is a classified error object; when the provider threw a value of
\* unrecognized shape (no type field, or not an object), the error surfaced
\* has type unknown, retryable false and the failing provider's name, also
\* when earlier attempts were retried.
C21_Classified ==
  \A c \in Calls :
    /\ Rejected(c) =>
         /\ c.result.error.shape = "typed"
         /\ c.result.error.type # "undefined"
         /\ c.result.error.code # "undefined"
         /\ c.result.error.provider # None
    /\ (c.pc = "done" /\ c.via = "router" /\ c.lastError.shape \in {"raw", "nonobj"}) =>
         /\ c.result.kind = "error"
         /\ c.result.error.shape = "typed"
         /\ c.result.error.type = "unknown"
         /\ c.result.error.retryable = FALSE
         /\ c.result.error.provider = c.sel
         /\ c.result.error.message = IF c.lastError.shape = "raw"
                                     THEN c.lastError.message
                                     ELSE "Unknown provider error"

\* A chat call whose first attempt was retried and whose second attempt
\* threw a non-object was rejected with a classified unknown error.
C21_Witness ==
  /\ out.kind = "request"
  /\ out.task.method = "chat"
  /\ out.task.attempt = 2
  /\ out.task.lastError.shape = "nonobj"
  /\ out.task.result.error.type = "unknown"
  /\ out.task.result.error.provider = out.task.sel

\* C22 as stated: every router-internal error surfaced to a caller carries
\* retryable = false and is classified as not retryable by isRetryableError.
C22_RouterErrorsFinal ==
  \A c \in Calls :
    (Rejected(c) /\ c.result.error.provider = "router") =>
      /\ c.result.error.code \in {"NO_PROVIDER_AVAILABLE", "ALL_FALLBACKS_FAILED",
                                  "FALLBACK_DISABLED"}
      /\ c.result.error.retryable = FALSE
      /\ ~isRetryableError(c.result.error)

Awaiting(c) == c.pc \in {"awaitChat", "awaitFallback", "awaitStream"}

\* The provider whose call task record c is awaiting.
Awaited(c) == IF c.pc = "awaitFallback" THEN Candidate(c) ELSE c.sel

RECURSIVE SumOver(_, _)
SumOver(f, S) ==
  IF S = {} THEN 0
  ELSE LET x == CHOOSE y \in S : TRUE IN f[x] + SumOver(f, S \ {x})

\* Provider calls issued so far for call c.
SumCalls(c) == SumOver(c.calls, Names)

C23_Step ==
  \A t \in Tasks :
    LET a == task[t]
        b == After(t)
    IN
    /\ (InFlight(a) /\ b # a) =>
         \* the awaited call succeeded: it did not fail into a retry, and no
         \* failure was recorded for its provider
         /\ (/\ Awaiting(a)
             /\ b.pc # "sleeping"
             /\ metrics'[Awaited(a)].failures = metrics[Awaited(a)].failures) =>
              /\ b.pc = "done"
              /\ b.result.kind \in {"response", "stream"}
              /\ b.result.from = Awaited(a)
              /\ b.calls = a.calls
         \* a response is returned only by the step that settles the call awaited
         /\ (b.pc = "done" /\ b.result.kind \in {"response", "stream"}) =>
              /\ Awaiting(a)
              /\ b.result.from = Awaited(a)
         \* a new call is issued only when none is outstanding
         /\ SumCalls(b) <= SumCalls(a) + 1
         /\ SumCalls(b) = SumCalls(a) + 1 => Awaiting(b)
    /\ (Starts /\ ~InFlight(a)) => SumCalls(b) <= 1

\* Calls issued for c and not yet settled: settled are the failed attempts
\* before the current one and the failed candidates before the current one.
C23_OneInFlight ==
  \A t \in Tasks :
    LET c == task[t] IN
    /\ c.pc = "awaitChat" => (c.calls[c.sel] = c.attempt /\ SumCalls(c) = c.attempt)
    /\ c.pc = "sleeping" => SumCalls(c) = c.attempt
    /\ c.pc = "awaitStream" => SumCalls(c) = 1

\* C23: once a provider call made for a request succeeds, primary attempt
\* or fallback candidate, the router returns that response and issues no
\* further provider call for the request; a request never has two provider
\* calls outstanding.
C23_OneResponse == []C23_OneInFlight /\ [][C23_Step]_vars

\* claude's response was returned for a request whose primary openai had
\* failed on both attempts.
C23_Witness ==
  /\ out.kind = "request"
  /\ out.task.result.kind = "response"
  /\ out.task.result.from = "claude"
  /\ out.task.sel = "openai"
  /\ out.task.calls = [n \in Names |-> IF n = "openai" THEN 2
                                       ELSE IF n = "claude" THEN 1 ELSE 0]

\* In this step task t reaches an outcome that the router records for p:
\* the terminal outcome of a primary chat or stream call on p, or the
\* failure of fallback candidate p.
Recorded(t, p) ==
  LET a == task[t]
      b == After(t)
  IN  /\ b # a
      /\ \/ a.pc \in {"awaitChat", "awaitStream"} /\ a.sel = p /\ b.pc # "sleeping"
         \/ /\ a.pc = "awaitFallback"
            /\ Candidate(a) = p
            /\ ~(b.pc = "done" /\ b.result.kind = "response")

RecordedFailure(t, p) ==
  /\ Recorded(t, p)
  /\ ~(After(t).pc = "done" /\ After(t).result.kind \in {"response", "stream"}
         /\ After(t).result.from = p)

C24_Counts ==
  \A p \in DOMAIN metrics :
    IF out'.kind = "reset" /\ out'.provider = p
    THEN /\ metrics'[p].requests = metrics[p].requests
         /\ metrics'[p].failures = 0
    ELSE /\ metrics'[p].requests =
              metrics[p].requests + Cardinality({t \in Tasks : Recorded(t, p)})
         /\ metrics'[p].failures =
              metrics[p].failures + Cardinality({t \in Tasks : RecordedFailure(t, p)})

C24_Rate ==
  \A p \in DOMAIN metrics' :
    metrics'[p].requests > 0 =>
      metrics'[p].successRate.num * metrics'[p].requests
        = (metrics'[p].requests - metrics'[p].failures) * metrics'[p].successRate.den

\* C24 as stated: under every interleaving of concurrent chat/chatStream
\* requests, each step adds to requests(P) exactly the outcomes recorded for
\* P in it and to failures(P) exactly the failures recorded (a reset sets
\* failures to 0), so no update is lost, and the successRate invariant holds
\* in every intermediate state.
C24_NoLostUpdate == [][C24_Counts /\ C24_Rate]_vars

C26_Step ==
  \A t \in Tasks :
    LET a == task[t]
        b == After(t)
    IN
    /\ (a.pc = "sleeping" /\ b # a) =>
         /\ b.pc = "awaitChat"
         /\ b.attempt = a.attempt + 1
         /\ b.calls = [a.calls EXCEPT ![a.sel] = @ + 1]
         /\ metrics' = metrics
    /\ (a.pc = "awaitChat" /\ b # a /\ b.pc # "sleeping") =>
         metrics'[a.sel].requests = metrics[a.sel].requests + 1

\* C26: the breaker is consulted only at selection: a chat request that is
\* in its retry loop against P issues its remaining attempts to P and has
\* its final outcome recorded on P, whether or not P's breaker has been
\* opened meanwhile by another request.
C26_RetryIgnoresBreaker == [][C26_Step]_vars

\* The second attempt of a request is in flight on openai while openai's
\* breaker is Open.
C26_Witness ==
  \E t \in Tasks :
    /\ task[t].pc = "awaitChat"
    /\ task[t].sel = "openai"
    /\ task[t].attempt = 2
    /\ metrics["openai"].isCircuitOpen

Occurrences(p) ==
  Cardinality({i \in 1..Len(getFallbackConfig.providers) :
                 getFallbackConfig.providers[i] = p})

C28_Bound ==
  \A c \in Calls :
    (c.method = "chat" /\ c.sel # None) =>
      /\ c.calls[c.sel] <= getRetryConfig.maxAttempts
      /\ \A q \in Names \ {c.sel} : c.calls[q] <= Occurrences(q)
      /\ \A p \in Names : c.calls[p] <= getRetryConfig.maxAttempts

C29_Step ==
  \A t \in Tasks :
    LET a == task[t]
        b == After(t)
        P == b.request.provider
    IN
    /\ (/\ Starts
        /\ ~InFlight(a)
        /\ b.method = "chat"
        /\ P # None
        /\ ~Closed(P)
        /\ \E q \in Names : Closed(q)) =>
         /\ b.pc = "awaitChat"
         /\ b.sel # P
         /\ b.sel = FirstClosed(<<getProviderForModel(b.request.model),
                                  getDefaultProvider>> \o providers)
         /\ b.sent = P
         /\ b.calls = [n \in Names |-> IF n = b.sel THEN 1 ELSE 0]
    /\ (a.pc = "sleeping" /\ b # a) => b.sent = a.request.provider
    /\ (a.pc = "awaitChat" /\ b # a) => OnlyMetricsOf(a.sel)
    /\ (b.pc = "awaitFallback" /\ b # a) => b.sent = Candidate(b)

\* C29: a chat request naming a provider P that is unregistered or Open is
\* routed to the model-mapped, default or first available provider Q; on
\* this path Q receives the request as it came (request.provider still P),
\* also on retries, while a fallback candidate receives the request with
\* request.provider rewritten to it; the outcome changes Q's metrics only.
C29_FallThrough == [][C29_Step]_vars

\* claude answered a request that named openai, whose breaker was Open: the
\* request claude received still named openai, and the success was recorded
\* on claude.
C29_Witness ==
  /\ out.kind = "request"
  /\ out.task.method = "chat"
  /\ out.task.request.provider = "openai"
  /\ out.task.sel = "claude"
  /\ out.task.sent = "openai"
  /\ out.task.result.kind = "response"
  /\ {"openai", "claude"} \subseteq DOMAIN metrics
  /\ metrics["openai"].isCircuitOpen
  /\ metrics["claude"].requests = 1
  /\ metrics["claude"].failures = 0

\* The caller handed the constructor a circuitBreaker object that does not
\* set enabled to true.
WithoutEnabled(caller) ==
  /\ "circuitBreaker" \in caller.given
  /\ ("enabled" \notin caller.cbGiven \/ ~caller.circuitBreaker.enabled)

\* The breaker is on and the caller's failureThreshold is 0 or unset.
ThresholdUnset(caller) ==
  /\ "circuitBreaker" \in caller.given
  /\ "enabled" \in caller.cbGiven
  /\ caller.circuitBreaker.enabled
  /\ ("failureThreshold" \notin caller.cbGiven \/ caller.circuitBreaker.failureThreshold = 0)

\* C30: the router options are merged shallowly: for a router constructed
\* with a circuitBreaker object that lacks enabled: true, no breaker is ever
\* Open, whatever the number of failures; with the breaker on and
\* failureThreshold 0 or unset, the breaker is Open exactly from the fifth
\* failure on.
C30_ShallowMerge ==
  \A caller \in BreakerCallers :
    options = constructorOptions(caller) =>
      /\ WithoutEnabled(caller) =>
           \A p \in DOMAIN metrics : ~metrics[p].isCircuitOpen
      /\ ThresholdUnset(caller) =>
           \A p \in DOMAIN metrics :
             metrics[p].isCircuitOpen <=> metrics[p].failures >= 5

\* Six calls in a row failed on a router constructed with
\* circuitBreaker: {failureThreshold: 2}, and the breaker is still Closed.
C30_Witness ==
  /\ options = constructorOptions(CallerBreaker({"failureThreshold"}, FALSE, 2))
  /\ options.circuitBreaker.failureThreshold = 2
  /\ metrics["openai"].failures = 6
  /\ ~metrics["openai"].isCircuitOpen

\* The step is one of the router's three reads.
ReadStep == out'.kind \in {"getMetrics", "getAvailableProviders", "isProviderAvailable"}

\* The step is a whole operation that C25 lists, or the end of a chat or
\* chatStream call.
ListedStep ==
  \/ ReadStep
  \/ out'.kind \in {"request", "reset", "updateProviderConfig", "removeProviderConfig"}

C25_Step ==
  /\ providers' # providers => init.pc = "health"
  /\ (ListedStep \/ \E t \in Tasks : task'[t] # task[t]) => providers' = providers
  /\ ReadStep => /\ metrics' = metrics
                 /\ task' = task

====
